---- MODULE Spec2Model ----
(***************************************************************************)
(* In-silico PCR (amplifu.py): FASTA parsing, strand complementation,      *)
(* amplicon inference from primer match positions, and the materializer    *)
(* loop of main() that prints one row per amplicon.                        *)
(*                                                                         *)
(* Strings are sequences of one-character strings.  An exception raised by *)
(* a function is modelled by a record field `raised`.                      *)
(***************************************************************************)
EXTENDS Integers, Sequences, FiniteSets, TLC

VARIABLES
    pc,            \* position of main(): check, file, grep, emit, done, crashed
    exit_status,   \* process exit status (-1 while running)
    stdout,        \* lines printed so far
    args,          \* parsed command line (fwd_len, rev_len, min_len, max_len, forward_strand)
    file_idx,      \* index of the current entry of args.fasta_files
    sequence,      \* main's dict seqid -> sequence of the current file
    common_seqs,   \* sorted identifiers still to be processed
    amplicons,     \* result of the last find_amplicons call
    matches_left,  \* primer occurrences the matcher may still report in this run
    expected_rows, \* history: per file, the number of qualifying pairs
    aborted,       \* history: files whose processing was aborted by an error
    emitted,       \* history: for each printed row, the candidate it was made from
    rc_seq,        \* reverse_complement round trip: the input string
    rc_out,        \* reverse_complement round trip: the latest result
    rc_calls,      \* reverse_complement round trip: calls made
    fa_lines,      \* fasta_generator: the lines of the file
    fa_out         \* fasta_generator: what the generator produced

vars == <<pc, exit_status, stdout, args, file_idx, sequence,
          common_seqs, amplicons, matches_left, expected_rows,
          aborted, emitted, rc_seq, rc_out, rc_calls, fa_lines, fa_out>>

mainVars == <<pc, exit_status, stdout, args, file_idx, sequence,
              common_seqs, amplicons, matches_left, expected_rows,
              aborted, emitted>>
rcVars == <<rc_seq, rc_out, rc_calls>>
faVars == <<fa_lines, fa_out>>

----------------------------------------------------------------------------
(* Bounds *)

MaxMatches == 4      \* primer occurrences reported by the matcher in one run
MaxPrimerLen == 2    \* longest primer
MaxAmpLen == 3       \* largest value of --min-len / --max-len
MaxSeqLen == 3       \* longest string given to the reverse_complement round trip
MaxLines == 3        \* most lines of a file given to fasta_generator alone

----------------------------------------------------------------------------
(* Generic helpers on sequences *)

Range(s) == {s[i] : i \in 1..Len(s)}

Min2(a, b) == IF a <= b THEN a ELSE b

RECURSIVE Flatten(_)
Flatten(ss) == IF ss = <<>> THEN <<>> ELSE Head(ss) \o Flatten(Tail(ss))

SeqsUpTo(S, n) == UNION {[1..k -> S] : k \in 0..n}

----------------------------------------------------------------------------
(* reverse_complement, amplifu.py:110-116 *)

complement ==
    [b \in {"A", "C", "G", "T", "N", "a", "c", "g", "t", "n"} |->
        CASE b = "A" -> "T" [] b = "C" -> "G" [] b = "G" -> "C" [] b = "T" -> "A"
          [] b = "N" -> "N" [] b = "a" -> "t" [] b = "c" -> "g" [] b = "g" -> "c"
          [] b = "t" -> "a" [] b = "n" -> "n"]

\* re.match('^[ACGTNacgtn]+$', seq): one or more characters of the class.
\* ($ also matches before a final newline; complement[] then raises KeyError,
\* so such a string raises as well.)
valid_sequence(seq) ==
    Len(seq) >= 1 /\ \A i \in 1..Len(seq) : seq[i] \in DOMAIN complement

reverse_complement(seq) ==
    IF ~valid_sequence(seq)
    THEN [raised |-> TRUE, value |-> <<>>]
    ELSE [raised |-> FALSE,
          value |-> [i \in 1..Len(seq) |-> complement[seq[Len(seq) + 1 - i]]]]

----------------------------------------------------------------------------
(* get_slice, amplifu.py:43-44: Python's sequence[start:end] for            *)
(* non-negative start and end (both are clamped to the length).             *)

get_slice(s, start, end) ==
    LET lo == Min2(start, Len(s))
        hi == Min2(end, Len(s))
    IN  IF lo >= hi THEN <<>> ELSE SubSeq(s, lo + 1, hi)

----------------------------------------------------------------------------
(* str.strip, str.split, ' '.join, str.startswith as fasta_generator uses   *)
(* them (amplifu.py:29-39).                                                 *)

Whitespace == {" ", "\n", "\t", "\r"}

RECURSIVE lstrip(_)
lstrip(s) ==
    IF s # <<>> /\ Head(s) \in Whitespace THEN lstrip(Tail(s)) ELSE s

RECURSIVE rstrip(_)
rstrip(s) ==
    IF s # <<>> /\ s[Len(s)] \in Whitespace THEN rstrip(SubSeq(s, 1, Len(s) - 1)) ELSE s

strip(s) == rstrip(lstrip(s))

\* s.split(): the maximal runs of non-whitespace characters, in order.
RECURSIVE split(_)
split(s) ==
    LET t == lstrip(s)
        n == IF \E i \in 1..Len(t) : t[i] \in Whitespace
             THEN (CHOOSE i \in 1..Len(t) :
                      t[i] \in Whitespace /\ \A j \in 1..(i - 1) : t[j] \notin Whitespace) - 1
             ELSE Len(t)
    IN  IF t = <<>> THEN <<>>
        ELSE <<SubSeq(t, 1, n)>> \o split(SubSeq(t, n + 1, Len(t)))

RECURSIVE join_space(_)
join_space(toks) ==
    IF toks = <<>> THEN <<>>
    ELSE IF Len(toks) = 1 THEN toks[1]
    ELSE toks[1] \o <<" ">> \o join_space(Tail(toks))

startswith_gt(line) == line # <<>> /\ line[1] = ">"

\* Python's None, which is no string.
None == <<"None">>

----------------------------------------------------------------------------
(* fasta_generator, amplifu.py:21-41.  The loop state is the generator's    *)
(* locals; `out` collects what it yields; `raised` is set when it raises    *)
(* (the records yielded before that have been delivered).                   *)

fasta_init ==
    [sequence |-> <<>>, seqid |-> None, comments |-> None,
     header |-> None, out |-> <<>>, raised |-> FALSE]

\* seqid, *comments = header[1:].split(); comments = ' '.join(comments)
\* raises ValueError when the header has no token, UnboundLocalError when
\* no header line has been read yet.
header_ok(header) == header # None /\ split(Tail(header)) # <<>>

fasta_yield_needed(st) == st.sequence # <<>>

fasta_line(st, line) ==
    IF st.raised THEN st
    ELSE IF startswith_gt(line)
    THEN LET flush == fasta_yield_needed(st)
             hdr == strip(line)
             toks == split(Tail(hdr))
         IN  IF flush /\ ~header_ok(st.header)
             THEN [st EXCEPT !.raised = TRUE]
             ELSE LET prev == split(Tail(st.header))
                      out1 == IF flush
                              THEN Append(st.out,
                                      [seqid |-> Head(prev),
                                       comments |-> join_space(Tail(prev)),
                                       seq |-> Flatten(st.sequence)])
                              ELSE st.out
                  IN  IF toks = <<>>
                      THEN [st EXCEPT !.out = out1, !.header = hdr, !.raised = TRUE]
                      ELSE [sequence |-> <<>>, seqid |-> Head(toks),
                            comments |-> join_space(Tail(toks)),
                            header |-> hdr, out |-> out1, raised |-> FALSE]
    ELSE [st EXCEPT !.sequence = Append(@, strip(line))]

RECURSIVE fasta_loop(_, _)
fasta_loop(st, lines) ==
    IF lines = <<>> THEN st ELSE fasta_loop(fasta_line(st, Head(lines)), Tail(lines))

fasta_generator(lines) ==
    LET st == fasta_loop(fasta_init, lines)
    IN  IF st.raised \/ ~fasta_yield_needed(st)
        THEN [raised |-> st.raised, records |-> st.out]
        ELSE [raised |-> FALSE,
              records |-> Append(st.out,
                  [seqid |-> st.seqid, comments |-> st.comments,
                   seq |-> Flatten(st.sequence)])]

----------------------------------------------------------------------------
(* find_amplicons, amplifu.py:56-94.  A candidate is the tuple              *)
(* <<start, end, first_primer, second_primer>>.                             *)

\* if min_len <= length <= max_len, with variants that forget one bound
in_window_nomin(length, min_len, max_len) == length <= max_len
in_window_nomax(length, min_len, max_len) == min_len <= length

in_window(length, min_len, max_len) == min_len <= length /\ length <= max_len

\* for start in starts: for end in ends: if min_len <= end - start <= max_len: append
pair_loop(starts, ends, first, second, min_len, max_len) ==
    LET n == Len(starts) * Len(ends)
        all == [k \in 1..n |->
                   <<starts[((k - 1) \div Len(ends)) + 1],
                     ends[((k - 1) % Len(ends)) + 1], first, second>>]
    IN  SelectSeq(all, LAMBDA c : in_window(c[2] - c[1], min_len, max_len))

\* key=lambda x: (x[0], x[1]), compared as Python compares tuples; the
\* variant places an element before its ties, as an unstable sort may
key_lt(a, b) == a[1] < b[1] \/ (a[1] = b[1] /\ a[2] < b[2])

key_le(a, b) == a[1] < b[1] \/ (a[1] = b[1] /\ a[2] <= b[2])

\* sorted() is stable: an element goes after every element whose key is not larger.
RECURSIVE sorted(_)
sorted(s) ==
    IF s = <<>> THEN <<>>
    ELSE LET t == sorted(SubSeq(s, 1, Len(s) - 1))
             x == s[Len(s)]
             k == Cardinality({i \in 1..Len(t) : key_le(t[i], x)})
         IN  SubSeq(t, 1, k) \o <<x>> \o SubSeq(t, k + 1, Len(t))

find_amplicons(primerFor_matchesPlus, primerFor_matchesMinus, primerRev_matchesPlus, primerRev_matchesMinus, min_len, max_len) ==
    sorted(pair_loop(primerFor_matchesPlus, primerRev_matchesMinus,
                     "forward_plus", "reverse_minus", min_len, max_len)
           \o pair_loop(primerRev_matchesPlus, primerFor_matchesMinus,
                        "reverse_plus", "forward_minus", min_len, max_len))

----------------------------------------------------------------------------
(* The input files of a run.  A file is the sequence of its lines.          *)

\* args.fasta_files; each file may exist or not
fasta_files == <<"one.fa", "two.fa">>
FileNames == Range(fasta_files)

FileText ==
    [n \in FileNames |->
        IF n = "one.fa"
        THEN << <<">", "a", "b", " ", "x", "\n">>,
                <<"A", "C", "\n">>,
                <<"g", "\n">>,
                <<">", "b", "\n">>,
                <<"t", "N", "\n">> >>
        ELSE << <<">", "b", " ", "y", "\n">>,
                <<"n", "T", "\n">> >>]

\* for seqid, comments, seqstr in fasta_generator(fasta_file): sequence[seqid] = seqstr
\* (amplifu.py:164-166): a later record of the same identifier overwrites.
to_dict(records) ==
    [id \in {records[i].seqid : i \in 1..Len(records)} |->
        LET last == CHOOSE i \in 1..Len(records) :
                       /\ records[i].seqid = id
                       /\ \A j \in (i + 1)..Len(records) : records[j].seqid # id
        IN  records[last].seq]

Parsed == [n \in FileNames |-> fasta_generator(FileText[n])]
Store == [n \in FileNames |-> to_dict(Parsed[n].records)]

----------------------------------------------------------------------------
(* sorted(common_seqs), amplifu.py:183: strings compare by code point.      *)

ord == [c \in {"a", "b", "x", "y"} |->
           CASE c = "a" -> 97 [] c = "b" -> 98 [] c = "x" -> 120 [] c = "y" -> 121]

RECURSIVE str_lt(_, _)
str_lt(a, b) ==
    IF b = <<>> THEN FALSE
    ELSE IF a = <<>> THEN TRUE
    ELSE IF ord[Head(a)] # ord[Head(b)] THEN ord[Head(a)] < ord[Head(b)]
    ELSE str_lt(Tail(a), Tail(b))

RECURSIVE sorted_ids(_)
sorted_ids(S) ==
    IF S = {} THEN <<>>
    ELSE LET m == CHOOSE x \in S : \A y \in S \ {x} : str_lt(x, y)
         IN  <<m>> \o sorted_ids(S \ {m})

----------------------------------------------------------------------------
(* The materializer, amplifu.py:198-207 *)

is_family_a(first_primer, second_primer) ==
    first_primer = "forward_plus" /\ second_primer = "reverse_minus"
is_family_b(first_primer, second_primer) ==
    first_primer = "reverse_plus" /\ second_primer = "forward_minus"

\* start += fwd_len / start += rev_len (lines 199-202); the variant shifts
\* by the forward primer whatever the family
shifted_start_fwd(c, fwd_len, rev_len) == c[1] + fwd_len

shifted_start(c, fwd_len, rev_len) ==
    IF is_family_a(c[3], c[4]) THEN c[1] + fwd_len
    ELSE IF is_family_b(c[3], c[4]) THEN c[1] + rev_len
    ELSE c[1]

\* lines 204-206: the slice, reverse-complemented for Family B under -s;
\* the variant reorients whatever the family
oriented_all(seqslice, forward_strand, first_primer, second_primer) ==
    IF forward_strand
    THEN reverse_complement(seqslice)
    ELSE [raised |-> FALSE, value |-> seqslice]

oriented(seqslice, forward_strand, first_primer, second_primer) ==
    IF forward_strand /\ is_family_b(first_primer, second_primer)
    THEN reverse_complement(seqslice)
    ELSE [raised |-> FALSE, value |-> seqslice]

\* one iteration of the loop of line 198: the printed row, or the exception
materialize(c, file_name, seq_name, seqstr, a) ==
    LET start == shifted_start(c, a.fwd_len, a.rev_len)
        end == c[2]
        o == oriented(get_slice(seqstr, start, end), a.forward_strand, c[3], c[4])
    IN  [raised |-> o.raised,
         row |-> [kind |-> "row", FileName |-> file_name, SeqName |-> seq_name,
                  StartPosition |-> start, EndPosition |-> end,
                  FirstPrimer |-> c[3], SecondPrimer |-> c[4],
                  AmpliconLength |-> end - start, AmpliconSequence |-> o.value]]

\* the loop of line 198 over the candidates: rows printed before an exception stay
RECURSIVE emit_rows(_, _, _, _, _)
emit_rows(amps, file_name, seq_name, seqstr, a) ==
    IF amps = <<>> THEN [raised |-> FALSE, rows |-> <<>>]
    ELSE LET m == materialize(Head(amps), file_name, seq_name, seqstr, a)
             rest == emit_rows(Tail(amps), file_name, seq_name, seqstr, a)
         IN  IF m.raised THEN [raised |-> TRUE, rows |-> <<>>]
             ELSE [raised |-> rest.raised, rows |-> <<m.row>> \o rest.rows]

----------------------------------------------------------------------------
(* main, amplifu.py:136-207 *)

NoDict == <<>>    \* an empty dict
HeaderLine == [kind |-> "header"]
ErrorLine(what) == [kind |-> "error", what |-> what]

\* the parsed command line: the primers' lengths, positive length bounds
\* with min_len <= max_len, and the -s flag
ArgSets ==
    {a \in [fwd_len : 1..MaxPrimerLen, rev_len : 1..MaxPrimerLen,
            min_len : 1..MaxAmpLen, max_len : 1..MaxAmpLen,
            forward_strand : BOOLEAN] : a.min_len <= a.max_len}

MainInit ==
    /\ pc = "check"
    /\ exit_status = -1
    /\ stdout = <<>>
    /\ args \in ArgSets
    /\ file_idx = 1
    /\ sequence = NoDict
    /\ common_seqs = <<>>
    /\ amplicons = <<>>
    /\ matches_left = MaxMatches
    /\ expected_rows = 0
    /\ aborted = {}
    /\ emitted = <<>>

Crash ==
    /\ pc' = "crashed"
    /\ exit_status' = 1

\* lines 151-159: check_seqfu() (46-54), then the header row.  A missing
\* executable raises FileNotFoundError, which check_seqfu does not catch; a
\* non-zero exit is caught, reported on stdout, and the run goes on.
CheckSeqfu ==
    /\ pc = "check"
    /\ \E outcome \in {"ok", "nonzero", "missing"} :
          IF outcome = "missing"
          THEN /\ Crash
               /\ UNCHANGED stdout
          ELSE /\ pc' = "file"
               /\ stdout' = (IF outcome = "nonzero"
                             THEN <<ErrorLine("seqfu")>> ELSE <<>>) \o <<HeaderLine>>
               /\ UNCHANGED exit_status
    /\ UNCHANGED <<args, file_idx, sequence, common_seqs, amplicons, matches_left,
                   expected_rows, aborted, emitted>>

\* line 161 with lines 164-166: the next file is read into `sequence`;
\* open() of a missing file raises, as does a failing fasta_generator.
NextFile ==
    /\ pc = "file"
    /\ file_idx <= Len(fasta_files)
    /\ \E exists \in BOOLEAN :
          LET name == fasta_files[file_idx]
          IN
          IF ~exists \/ Parsed[name].raised
          THEN /\ Crash
               /\ aborted' = aborted \cup {file_idx}
               /\ UNCHANGED sequence
          ELSE /\ pc' = "grep"
               /\ sequence' = [name |-> name, dict |-> Store[name]]
               /\ UNCHANGED <<exit_status, aborted>>
    /\ UNCHANGED <<stdout, args, file_idx, common_seqs, amplicons, matches_left,
                   expected_rows, emitted>>

\* the loop of line 161 is over: main returns
Finish ==
    /\ pc = "file"
    /\ file_idx > Len(fasta_files)
    /\ pc' = "done"
    /\ exit_status' = 0
    /\ UNCHANGED <<stdout, args, file_idx, sequence, common_seqs, amplicons,
                   matches_left, expected_rows, aborted, emitted>>

\* lines 171-183: both run_seqfu_grep calls (96-108), parse_seqfu_output
\* (118-134) and the sorted common identifiers.  fwd_keys and rev_keys are the
\* identifiers the matcher reports a line for; the position lists of an
\* identifier are drawn where main reads them (EmitSeq).  A non-zero exit of
\* the matcher is caught in run_seqfu_grep, reported with print() on stdout,
\* and "" is returned, which parses to an empty dict.
common_of(fwd_keys, rev_keys) == sorted_ids(fwd_keys \cap rev_keys)

RunSeqfuGrep ==
    /\ pc = "grep"
    /\ \E fwd_fail \in BOOLEAN, rev_fail \in BOOLEAN :
       \E fwd_out \in SUBSET (DOMAIN sequence.dict),
          rev_out \in SUBSET (DOMAIN sequence.dict) :
          LET fwd_keys == IF fwd_fail THEN {} ELSE fwd_out
              rev_keys == IF rev_fail THEN {} ELSE rev_out
          IN  /\ 2 * Cardinality(fwd_out \cap rev_out) <= matches_left
              /\ stdout' = stdout
                           \o (IF fwd_fail THEN <<ErrorLine("grep")>> ELSE <<>>)
                           \o (IF rev_fail THEN <<ErrorLine("grep")>> ELSE <<>>)
              /\ common_seqs' = common_of(fwd_keys, rev_keys)
              /\ aborted' = IF fwd_fail \/ rev_fail
                            THEN aborted \cup {file_idx} ELSE aborted
    /\ pc' = "emit"
    /\ UNCHANGED <<exit_status, args, file_idx, sequence, amplicons, matches_left,
                   expected_rows, emitted>>

\* The position lists the matcher reports for an identifier it reports for
\* both primers (forward plus, forward minus, reverse plus, reverse minus): at
\* least one position per primer, at most n in all, each between 0 and the
\* length of the sequence.
MatchLists(seqlen, n) ==
    UNION {[1..c[1] -> 0..seqlen] \X [1..c[2] -> 0..seqlen]
           \X [1..c[3] -> 0..seqlen] \X [1..c[4] -> 0..seqlen] :
           c \in {d \in (0..n) \X (0..n) \X (0..n) \X (0..n) :
                     /\ d[1] + d[2] + d[3] + d[4] <= n
                     /\ d[1] + d[2] >= 1
                     /\ d[3] + d[4] >= 1}}

SeqLens == UNION {{Len(Store[f][id]) : id \in DOMAIN Store[f]} : f \in FileNames}

MatchTable == [l \in SeqLens, n \in 0..MaxMatches |-> MatchLists(l, n)]

\* the number of (start, end) pairs inside the length window
count_pairs(starts, ends, min_len, max_len) ==
    Cardinality({p \in (1..Len(starts)) \X (1..Len(ends)) :
                    /\ min_len <= ends[p[2]] - starts[p[1]]
                    /\ ends[p[2]] - starts[p[1]] <= max_len})

\* lines 184-207 for one seq_name: find_amplicons, then one row per candidate;
\* an exception of reverse_complement ends the run with a traceback.
EmitSeq ==
    /\ pc = "emit"
    /\ common_seqs # <<>>
    /\ \E m \in MatchTable[Len(sequence.dict[Head(common_seqs)]), matches_left
                             - 2 * (Len(common_seqs) - 1)] :
       LET seq_name == Head(common_seqs)
           primerFor_matchesPlus == m[1]
           primerFor_matchesMinus == m[2]
           primerRev_matchesPlus == m[3]
           primerRev_matchesMinus == m[4]
           amps == find_amplicons(primerFor_matchesPlus, primerFor_matchesMinus,
                                  primerRev_matchesPlus, primerRev_matchesMinus,
                                  args.min_len, args.max_len)
           e == emit_rows(amps, sequence.name, seq_name, sequence.dict[seq_name], args)
       IN  /\ amplicons' = amps
           /\ stdout' = stdout \o e.rows
           /\ emitted' = emitted \o SubSeq(amps, 1, Len(e.rows))
           /\ matches_left' = matches_left - (Len(m[1]) + Len(m[2]) + Len(m[3]) + Len(m[4]))
           /\ expected_rows' = expected_rows
                 + count_pairs(primerFor_matchesPlus, primerRev_matchesMinus,
                               args.min_len, args.max_len)
                 + count_pairs(primerRev_matchesPlus, primerFor_matchesMinus,
                               args.min_len, args.max_len)
           /\ IF e.raised
              THEN Crash /\ UNCHANGED common_seqs
              ELSE /\ common_seqs' = Tail(common_seqs)
                   /\ UNCHANGED <<pc, exit_status>>
    /\ UNCHANGED <<args, file_idx, sequence, aborted>>

\* the loop of line 184 is over: on to the next file.  The per-file locals
\* are dead from here on (each is reassigned before its next use).
EndFile ==
    /\ pc = "emit"
    /\ common_seqs = <<>>
    /\ pc' = "file"
    /\ file_idx' = file_idx + 1
    /\ sequence' = NoDict
    /\ amplicons' = <<>>
    /\ UNCHANGED <<exit_status, stdout, args, common_seqs, matches_left,
                   expected_rows, aborted, emitted>>

----------------------------------------------------------------------------
(* reverse_complement applied twice to a string *)

RcChars == DOMAIN complement \cup {"R"}

RcInit ==
    /\ rc_seq \in SeqsUpTo(RcChars, MaxSeqLen)
    /\ rc_out = [raised |-> FALSE, value |-> rc_seq]
    /\ rc_calls = 0

RcIdle ==
    /\ rc_seq = <<>>
    /\ rc_out = [raised |-> FALSE, value |-> <<>>]
    /\ rc_calls = 0

RcCall ==
    /\ rc_calls < 2
    /\ ~rc_out.raised
    /\ rc_out' = reverse_complement(rc_out.value)
    /\ rc_calls' = rc_calls + 1
    /\ UNCHANGED rc_seq

----------------------------------------------------------------------------
(* fasta_generator run to exhaustion on a file *)

FastaLines ==
    { <<">", "a", "b", " ", "x", "\n">>,
      <<">", "b", "\n">>,
      <<">", "\n">>,
      <<"A", "C", "\n">>,
      <<" ", "g", "\n">>,
      <<"\n">> }

FaInit ==
    /\ fa_lines \in SeqsUpTo(FastaLines, MaxLines)
    /\ fa_out = [done |-> FALSE, raised |-> FALSE, records |-> <<>>]

FaIdle ==
    /\ fa_lines = <<>>
    /\ fa_out = [done |-> FALSE, raised |-> FALSE, records |-> <<>>]

FastaParse ==
    /\ ~fa_out.done
    /\ LET g == fasta_generator(fa_lines)
       IN  fa_out' = [done |-> TRUE, raised |-> g.raised, records |-> g.records]
    /\ UNCHANGED fa_lines

----------------------------------------------------------------------------
(* Specifications *)

MainIdle ==
    /\ pc = "idle"
    /\ exit_status = -1
    /\ stdout = <<>>
    /\ args = [fwd_len |-> 1, rev_len |-> 1, min_len |-> 1, max_len |-> 1,
               forward_strand |-> FALSE]
    /\ file_idx = 1
    /\ sequence = NoDict
    /\ common_seqs = <<>>
    /\ amplicons = <<>>
    /\ matches_left = 0
    /\ expected_rows = 0
    /\ aborted = {}
    /\ emitted = <<>>

Init == MainInit /\ RcIdle /\ FaIdle

Next ==
    \/ (CheckSeqfu /\ UNCHANGED <<rcVars, faVars>>)
    \/ (NextFile /\ UNCHANGED <<rcVars, faVars>>)
    \/ (Finish /\ UNCHANGED <<rcVars, faVars>>)
    \/ (RunSeqfuGrep /\ UNCHANGED <<rcVars, faVars>>)
    \/ (EmitSeq /\ UNCHANGED <<rcVars, faVars>>)
    \/ (EndFile /\ UNCHANGED <<rcVars, faVars>>)

Spec == Init /\ [][Next]_vars

RcSpecInit == MainIdle /\ RcInit /\ FaIdle
RcNext == RcCall /\ UNCHANGED <<mainVars, faVars>>
SpecRC == RcSpecInit /\ [][RcNext]_vars

FaSpecInit == MainIdle /\ RcIdle /\ FaInit
FaNext == FastaParse /\ UNCHANGED <<mainVars, rcVars>>
SpecFasta == FaSpecInit /\ [][FaNext]_vars

----------------------------------------------------------------------------
(* Vocabulary of the properties *)

RowLines == SelectSeq(stdout, LAMBDA l : l.kind = "row")
ErrorLines == SelectSeq(stdout, LAMBDA l : l.kind = "error")
Ended == pc \in {"done", "crashed"}

FamilyA(c) == c[3] = "forward_plus" /\ c[4] = "reverse_minus"
FamilyB(c) == c[3] = "reverse_plus" /\ c[4] = "forward_minus"
LeadLen(c) == IF FamilyA(c) THEN args.fwd_len ELSE args.rev_len

\* the characters of s at the zero-based offsets a, a+1, ..., b-1 that exist
SliceOf(s, a, b) ==
    LET hi == IF b <= Len(s) THEN b ELSE Len(s)
    IN  IF a >= hi THEN <<>> ELSE [i \in 1..(hi - a) |-> s[a + i]]

\* the sequence a row was cut from
SourceOf(r) == Store[r.FileName][r.SeqName]
RawSlice(r) == SliceOf(SourceOf(r), r.StartPosition, r.EndPosition)

Watson == [b \in DOMAIN complement |->
              IF b \in {"A", "a"} THEN (IF b = "A" THEN "T" ELSE "t")
              ELSE IF b \in {"T", "t"} THEN (IF b = "T" THEN "A" ELSE "a")
              ELSE IF b \in {"C", "c"} THEN (IF b = "C" THEN "G" ELSE "g")
              ELSE IF b \in {"G", "g"} THEN (IF b = "G" THEN "C" ELSE "c")
              ELSE b]
RevComp(s) == [i \in 1..Len(s) |-> Watson[s[Len(s) + 1 - i]]]

\* a is before b in lexicographic order of code points
LexBefore(a, b) ==
    \E k \in 1..Len(b) :
       /\ \A j \in 1..(k - 1) : j <= Len(a) /\ a[j] = b[j]
       /\ (k > Len(a) \/ (k <= Len(a) /\ ord[a[k]] < ord[b[k]]))

\* every printed row has its candidate in the history, in order
RowsTracked == Len(RowLines) = Len(emitted)

----------------------------------------------------------------------------
(* C1: the rows printed are exactly the qualifying pairs of the two valid    *)
(* role pairings: whenever main is between two files or has ended, the       *)
(* number of rows printed equals the number of qualifying (start, end)       *)
(* pairs of the identifiers processed, and every row is of Family A or B.    *)
C1_ExhaustivePairing ==
    /\ \A k \in 1..Len(emitted) : FamilyA(emitted[k]) \/ FamilyB(emitted[k])
    /\ (pc = "file" \/ Ended) => Len(RowLines) = expected_rows

\* the same for the runs that no exception ends
C1_WhenNotCrashed ==
    /\ \A k \in 1..Len(emitted) : FamilyA(emitted[k]) \/ FamilyB(emitted[k])
    /\ pc \in {"file", "done"} => Len(RowLines) = expected_rows

(* C2: with min_len >= 1, every candidate find_amplicons returned has        *)
(* end > start and min_len <= end - start <= max_len.                        *)
C2_CandidateWindow ==
    args.min_len >= 1 =>
        \A k \in 1..Len(amplicons) :
           /\ amplicons[k][2] > amplicons[k][1]
           /\ args.min_len <= amplicons[k][2] - amplicons[k][1]
           /\ amplicons[k][2] - amplicons[k][1] <= args.max_len

C2_Witness ==
    /\ args.min_len >= 1
    /\ Len(amplicons) >= 2
    /\ \E k \in 1..Len(amplicons) : amplicons[k][2] - amplicons[k][1] = args.max_len

\* the scenario of the test data: candidate (11, 38), forward primer CAGATA
C3_Example ==
    LET m == materialize(<<11, 38, "forward_plus", "reverse_minus">>, "one.fa",
                         <<"a">>, [i \in 1..47 |-> "N"],
                         [fwd_len |-> 6, rev_len |-> 7, min_len |-> 10,
                          max_len |-> 10000, forward_strand |-> FALSE])
    IN  /\ ~m.raised
        /\ m.row.StartPosition = 17
        /\ m.row.EndPosition = 38
        /\ m.row.AmpliconLength = 21
        /\ m.row.AmpliconSequence = [i \in 1..21 |-> "N"]

C4_ReportedLength ==
    /\ RowsTracked
    /\ \A k \in 1..Len(emitted) :
          /\ RowLines[k].AmpliconLength <= args.max_len
          /\ RowLines[k].AmpliconLength >= args.min_len - LeadLen(emitted[k])

C4_Witness ==
    \E k \in 1..Len(emitted) :
       /\ RowLines[k].AmpliconLength < args.min_len
       /\ RowLines[k].AmpliconLength = args.min_len - LeadLen(emitted[k])
       /\ emitted[k][2] - emitted[k][1] = args.max_len

C6_RowOrder ==
    /\ RowsTracked
    /\ \A i, j \in 1..Len(emitted) :
          (i < j /\ RowLines[i].FileName = RowLines[j].FileName) =>
             LET a == emitted[i]
                 b == emitted[j]
             IN  \/ LexBefore(RowLines[i].SeqName, RowLines[j].SeqName)
                 \/ /\ RowLines[i].SeqName = RowLines[j].SeqName
                    /\ \/ a[1] < b[1]
                       \/ a[1] = b[1] /\ a[2] < b[2]
                       \/ a[1] = b[1] /\ a[2] = b[2] /\ ~(FamilyB(a) /\ FamilyA(b))

C6_Witness ==
    \E i, j \in 1..Len(emitted) :
       /\ i < j
       /\ RowLines[i].FileName = RowLines[j].FileName
       /\ RowLines[i].SeqName # RowLines[j].SeqName
       /\ emitted[j][1] < emitted[i][1]

\* candidates of both families that tie on (start, end) are reached as well
C6_TieReached ==
    \E i, j \in 1..Len(emitted) :
       /\ i < j
       /\ RowLines[i].FileName = RowLines[j].FileName
       /\ RowLines[i].SeqName = RowLines[j].SeqName
       /\ emitted[i][1] = emitted[j][1] /\ emitted[i][2] = emitted[j][2]
       /\ FamilyA(emitted[i]) /\ FamilyB(emitted[j])

(* C7: reverse_complement applied twice to a string over                     *)
(* {A,C,G,T,N,a,c,g,t,n} returns the string (no call raises).                *)
C7_RoundTrip ==
    (\A i \in 1..Len(rc_seq) : rc_seq[i] \in DOMAIN complement) =>
        /\ ~rc_out.raised
        /\ (rc_calls = 2 => rc_out.value = rc_seq)

\* the same for the strings of at least one character
C7_NonEmptyRoundTrip ==
    (rc_seq # <<>> /\ \A i \in 1..Len(rc_seq) : rc_seq[i] \in DOMAIN complement) =>
        /\ ~rc_out.raised
        /\ (rc_calls = 2 => rc_out.value = rc_seq)

(* C8: when the processing of a file was aborted by an error (the file is    *)
(* missing, or a call of the matcher failed), the run ends with a            *)
(* diagnostic and a non-zero exit status, and no row of that file is printed.*)
C8_AbortedRun ==
    (Ended /\ aborted # {}) =>
        /\ exit_status # 0
        /\ (pc = "crashed" \/ ErrorLines # <<>>)
        /\ \A f \in aborted : \A k \in 1..Len(RowLines) :
              RowLines[k].FileName # fasta_files[f]

\* the records a FASTA file holds, one per header line
HeaderIdx(lines) == {i \in 1..Len(lines) : startswith_gt(lines[i])}

NthHeader(lines, n) ==
    CHOOSE i \in HeaderIdx(lines) : Cardinality({j \in HeaderIdx(lines) : j <= i}) = n

BodyOf(lines, h) ==
    LET stop == IF \E j \in HeaderIdx(lines) : j > h
                THEN CHOOSE j \in HeaderIdx(lines) :
                        j > h /\ \A x \in HeaderIdx(lines) : x > h => j <= x
                ELSE Len(lines) + 1
    IN  Flatten([i \in 1..(stop - h - 1) |-> strip(lines[h + i])])

ExpectedRecords(lines) ==
    [n \in 1..Cardinality(HeaderIdx(lines)) |->
        LET h == NthHeader(lines, n)
            toks == split(Tail(lines[h]))
        IN  [seqid |-> IF toks = <<>> THEN <<>> ELSE Head(toks),
             comments |-> IF toks = <<>> THEN <<>> ELSE join_space(Tail(toks)),
             seq |-> BodyOf(lines, h)]]

(* C9: for an input that is empty or whose first line is a header (every     *)
(* header naming an identifier),                                             *)
(* fasta_generator yields one record per header line, in order: the first    *)
(* token after '>' as identifier, the other tokens as comment, and the       *)
(* concatenation of the lines up to the next header as sequence (empty when  *)
(* there are none).                                                          *)
C9_OneRecordPerHeader ==
    (/\ fa_out.done
     /\ (fa_lines = <<>> \/ startswith_gt(fa_lines[1]))
     /\ \A h \in HeaderIdx(fa_lines) : split(Tail(fa_lines[h])) # <<>>) =>
        /\ ~fa_out.raised
        /\ fa_out.records = ExpectedRecords(fa_lines)

\* the same for the files in which every header names an identifier and is
\* followed by at least one line of sequence
C9_WhenNoHeaderIsBare ==
    (/\ fa_out.done
     /\ (fa_lines = <<>> \/ startswith_gt(fa_lines[1]))
     /\ \A h \in HeaderIdx(fa_lines) :
           /\ split(Tail(fa_lines[h])) # <<>>
           /\ h < Len(fa_lines) /\ ~startswith_gt(fa_lines[h + 1])) =>
        /\ ~fa_out.raised
        /\ fa_out.records = ExpectedRecords(fa_lines)

(* C10: every row whose candidate lies within its sequence                   *)
(* (0 <= start <= end <= length) reports a non-negative AmpliconLength that  *)
(* equals the number of characters of its AmpliconSequence.                  *)
C10_LengthIsSequenceLength ==
    /\ RowsTracked
    /\ \A k \in 1..Len(emitted) :
          LET c == emitted[k]
              r == RowLines[k]
          IN  (/\ args.min_len >= 1
               /\ 0 <= c[1] /\ c[1] <= c[2] /\ c[2] <= Len(SourceOf(r))) =>
                 /\ r.AmpliconLength >= 0
                 /\ r.AmpliconLength = Len(r.AmpliconSequence)

\* the same for the rows whose shifted start is not beyond the end
C10_WhenShiftFits ==
    /\ RowsTracked
    /\ \A k \in 1..Len(emitted) :
          LET c == emitted[k]
              r == RowLines[k]
          IN  (r.StartPosition <= r.EndPosition /\ c[2] <= Len(SourceOf(r))) =>
                 /\ r.AmpliconLength >= 0
                 /\ r.AmpliconLength = Len(r.AmpliconSequence)

====
